---- MODULE Spec2Model ----
(***************************************************************************)
(* Model of ptt/cleanup_topologies.py: the property-value visitor that     *)
(* collects the property delegates of topological lines, polygons and      *)
(* networks, remove_features_not_referenced_by_topologies, and the         *)
(* command-line main() around it.                                          *)
(*                                                                         *)
(* A feature is identified by its feature id; `features` maps each id to   *)
(* the feature's sequence of properties (their all-time values).  A        *)
(* feature collection is a sequence of feature ids.                        *)
(***************************************************************************)
EXTENDS Integers, Sequences, FiniteSets, TLC

\* ------------------------------------------------------------------ bounds
MaxLen == 3          \* features in the collections of one call, in total
MaxRuns == 2         \* calls of the function on its own result
NumFiles == 2        \* input files of one command line
MaxSections == 1     \* sections (and interiors) of a construct, visitor runs
MaxWindows == 2      \* time windows of a piecewise aggregation, visitor runs
MaxDelegates == 1    \* delegates the visitor holds from earlier visits, visitor runs

FeatureIds == 1..3

\* ------------------------------------------------------- property values
\* The kinds of property value the visitor distinguishes; every other kind
\* of pygplates property value is "Other" (the base visitor does nothing).
Topological == {"GpmlTopologicalLine", "GpmlTopologicalPolygon", "GpmlTopologicalNetwork"}

\* One record shape for every kind of property value:
\*   values     nested property values (constant: one; piecewise: one per window)
\*   sections   target feature ids of the sections' property delegates, in order
\*              (for "Other": feature ids the value names outside any topology)
\*   interiors  target feature ids of a network's interior delegates
Node(kind, value_type, values, sections, interiors) ==
    [kind |-> kind, value_type |-> value_type, values |-> values,
     sections |-> sections, interiors |-> interiors]

GpmlTopologicalLine(sections) == Node("GpmlTopologicalLine", "", <<>>, sections, <<>>)
GpmlTopologicalPolygon(sections) == Node("GpmlTopologicalPolygon", "", <<>>, sections, <<>>)
GpmlTopologicalNetwork(sections, interiors) ==
    Node("GpmlTopologicalNetwork", "", <<>>, sections, interiors)
GpmlConstantValue(value) == Node("GpmlConstantValue", "", <<value>>, <<>>, <<>>)
GpmlPiecewiseAggregation(value_type, windows) ==
    Node("GpmlPiecewiseAggregation", value_type, windows, <<>>, <<>>)
OtherValue(refs) == Node("Other", "", <<>>, refs, <<>>)

\* ------------------------------------ _GetTopologicalPropertyDelegatesVisitor
\* The visitor's state is its list topological_property_delegates; each
\* visit method is modelled as (value, list before) -> list after.
RECURSIVE accept_visitor(_, _)
RECURSIVE VisitTimeWindows(_, _, _)

visit_gpml_constant_value(gpml_constant_value, delegates) ==
    accept_visitor(gpml_constant_value.values[1], delegates)

\* for gpml_time_window in gpml_piecewise_aggregation: visit its value
VisitTimeWindows(windows, i, delegates) ==
    IF i > Len(windows) THEN delegates
    ELSE VisitTimeWindows(windows, i + 1, accept_visitor(windows[i], delegates))

\* Mutant: the time windows are visited whatever the declared value type.
visit_gpml_piecewise_aggregation_any_type(gpml_piecewise_aggregation, delegates) ==
    VisitTimeWindows(gpml_piecewise_aggregation.values, 1, delegates)

visit_gpml_piecewise_aggregation(gpml_piecewise_aggregation, delegates) ==
    IF gpml_piecewise_aggregation.value_type \in Topological
    THEN VisitTimeWindows(gpml_piecewise_aggregation.values, 1, delegates)
    ELSE delegates

visit_gpml_topological_line(gpml_topological_line, delegates) ==
    delegates \o gpml_topological_line.sections

visit_gpml_topological_polygon(gpml_topological_polygon, delegates) ==
    delegates \o gpml_topological_polygon.sections

visit_gpml_topological_network(gpml_topological_network, delegates) ==
    (delegates \o gpml_topological_network.sections) \o gpml_topological_network.interiors

\* Mutant: the references a non-topological value holds are collected too.
accept_visitor_follows_references(property_value, delegates) ==
    CASE property_value.kind = "GpmlConstantValue" ->
            visit_gpml_constant_value(property_value, delegates)
      [] property_value.kind = "GpmlPiecewiseAggregation" ->
            visit_gpml_piecewise_aggregation(property_value, delegates)
      [] property_value.kind = "GpmlTopologicalLine" ->
            visit_gpml_topological_line(property_value, delegates)
      [] property_value.kind = "GpmlTopologicalPolygon" ->
            visit_gpml_topological_polygon(property_value, delegates)
      [] property_value.kind = "GpmlTopologicalNetwork" ->
            visit_gpml_topological_network(property_value, delegates)
      [] OTHER -> delegates \o property_value.sections

\* property_value.accept_visitor(self): dispatch on the kind of the value;
\* the base class visitor does nothing for every other kind.
accept_visitor(property_value, delegates) ==
    CASE property_value.kind = "GpmlConstantValue" ->
            visit_gpml_constant_value(property_value, delegates)
      [] property_value.kind = "GpmlPiecewiseAggregation" ->
            visit_gpml_piecewise_aggregation(property_value, delegates)
      [] property_value.kind = "GpmlTopologicalLine" ->
            visit_gpml_topological_line(property_value, delegates)
      [] property_value.kind = "GpmlTopologicalPolygon" ->
            visit_gpml_topological_polygon(property_value, delegates)
      [] property_value.kind = "GpmlTopologicalNetwork" ->
            visit_gpml_topological_network(property_value, delegates)
      [] OTHER -> delegates

\* Mutant: a visit that leaves the list as long as it was counts as a growth.
visit_property_value_not_shorter(property_value, delegates) ==
    LET after == accept_visitor(property_value, delegates)
    IN  [delegates |-> after, visited |-> Len(after) >= Len(delegates)]

\* Returns the list after the visit and whether it grew.
visit_property_value(property_value, delegates) ==
    LET after == accept_visitor(property_value, delegates)
    IN  [delegates |-> after, visited |-> Len(after) > Len(delegates)]

\* for property in feature: ... if visit_property_value(...): add; break
RECURSIVE ScanProperties(_, _, _)
ScanProperties(properties, k, delegates) ==
    IF k > Len(properties) THEN [delegates |-> delegates, topological |-> FALSE]
    ELSE LET r == visit_property_value(properties[k], delegates)
         IN  IF r.visited THEN [delegates |-> r.delegates, topological |-> TRUE]
             ELSE ScanProperties(properties, k + 1, r.delegates)

Range(seq) == {seq[i] : i \in DOMAIN seq}

\* Mutant: the last feature is moved into the deleted position.
DeleteAtSwapLast(seq, index) ==
    [j \in 1..(Len(seq) - 1) |-> IF j = index + 1 THEN seq[Len(seq)] ELSE seq[j]]

\* del feature_collection[feature_index]  (feature_index is 0-based)
DeleteAt(seq, index) ==
    [j \in 1..(Len(seq) - 1) |-> IF j <= index THEN seq[j] ELSE seq[j + 1]]

\* ------------------------------------------------------------------ state
VARIABLES
    features,                        \* feature id -> its properties
    input,                           \* the argument of the current call
    feature_collections,             \* the lists of features being filtered
    topology_feature_ids,
    topological_property_delegates,  \* the visitor's list
    referenced_feature_ids,
    collection_index,                \* position of the for loops (1-based)
    scan_index,                      \* position of `for feature in feature_collection`
    feature_index,                   \* the while loop's index (0-based)
    tested,                          \* per collection, the features read at line 92
    results,                         \* the calls made so far: argument and returned list
    pc,
    disk,                            \* filename -> the file, for main()
    output_filename_prefix,          \* whether -o was given
    input_feature_collections,       \* the collections main() has read
    feature_collection_index,        \* main()'s write loop (0-based)
    stderr,                          \* the lines printed to sys.stderr
    exit_code,
    property_value,                  \* the value handed to the last visit (visitor runs)
    delegates_before                 \* the visitor's list before that visit

filter_vars == <<feature_collections, topology_feature_ids,
                 topological_property_delegates, referenced_feature_ids,
                 collection_index, scan_index, feature_index, tested>>

main_vars == <<disk, output_filename_prefix, input_feature_collections,
               feature_collection_index, stderr, exit_code>>

visit_vars == <<property_value, delegates_before>>

vars == <<features, input, filter_vars, results, pc, main_vars, visit_vars>>

\* ------------------- remove_features_not_referenced_by_topologies, stepwise
\* Lines 66-72: copy the collections into lists, empty set, new visitor.
Materialize ==
    /\ pc = "call"
    /\ feature_collections' = input
    /\ topology_feature_ids' = {}
    /\ topological_property_delegates' = <<>>
    /\ referenced_feature_ids' = {}
    /\ collection_index' = 1
    /\ scan_index' = 1
    /\ feature_index' = 0
    /\ tested' = [i \in DOMAIN input |-> <<>>]
    /\ pc' = "scan"
    /\ UNCHANGED <<features, input, results, main_vars, visit_vars>>

\* Lines 74-82: one feature of the scan, all of its property loop.
ScanFeature ==
    /\ pc = "scan"
    /\ collection_index <= Len(feature_collections)
    /\ scan_index <= Len(feature_collections[collection_index])
    /\ LET feature == feature_collections[collection_index][scan_index]
           r == ScanProperties(features[feature], 1, topological_property_delegates)
       IN  /\ topological_property_delegates' = r.delegates
           /\ topology_feature_ids' =
                IF r.topological THEN topology_feature_ids \cup {feature}
                ELSE topology_feature_ids
    /\ scan_index' = scan_index + 1
    /\ UNCHANGED <<features, input, feature_collections, referenced_feature_ids,
                   collection_index, feature_index, tested, results, pc,
                   main_vars, visit_vars>>

\* Line 73: the scan moves on to the next collection.
ScanNextCollection ==
    /\ pc = "scan"
    /\ collection_index <= Len(feature_collections)
    /\ scan_index > Len(feature_collections[collection_index])
    /\ collection_index' = collection_index + 1
    /\ scan_index' = 1
    /\ UNCHANGED <<features, input, feature_collections, topology_feature_ids,
                   topological_property_delegates, referenced_feature_ids,
                   feature_index, tested, results, pc,
                   main_vars, visit_vars>>

\* Lines 85-86: the set of the target ids of all collected delegates.
ComputeReferenced ==
    /\ pc = "scan"
    /\ collection_index > Len(feature_collections)
    /\ referenced_feature_ids' = Range(topological_property_delegates)
    /\ collection_index' = 1
    /\ feature_index' = 0
    /\ pc' = "remove"
    /\ UNCHANGED <<features, input, feature_collections, topology_feature_ids,
                   topological_property_delegates, scan_index, tested, results,
                   main_vars, visit_vars>>

\* Mutant: the index is not taken back after a deletion.
RemoveStepNoRewind ==
    /\ pc = "remove"
    /\ collection_index <= Len(feature_collections)
    /\ feature_index < Len(feature_collections[collection_index])
    /\ LET feature_collection == feature_collections[collection_index]
           feature_id == feature_collection[feature_index + 1]
       IN  /\ tested' = [tested EXCEPT ![collection_index] = Append(@, feature_id)]
           /\ IF /\ feature_id \notin topology_feature_ids
                 /\ feature_id \notin referenced_feature_ids
              THEN feature_collections' =
                        [feature_collections EXCEPT
                            ![collection_index] = DeleteAt(feature_collection, feature_index)]
              ELSE feature_collections' = feature_collections
           /\ feature_index' = feature_index + 1
    /\ UNCHANGED <<features, input, topology_feature_ids, topological_property_delegates,
                   referenced_feature_ids, collection_index, scan_index, results, pc,
                   main_vars, visit_vars>>

\* Mutant: only the referenced features are kept.
RemoveStepReferencedOnly ==
    /\ pc = "remove"
    /\ collection_index <= Len(feature_collections)
    /\ feature_index < Len(feature_collections[collection_index])
    /\ LET feature_collection == feature_collections[collection_index]
           feature_id == feature_collection[feature_index + 1]
       IN  /\ tested' = [tested EXCEPT ![collection_index] = Append(@, feature_id)]
           /\ IF feature_id \notin referenced_feature_ids
              THEN /\ feature_collections' =
                        [feature_collections EXCEPT
                            ![collection_index] = DeleteAt(feature_collection, feature_index)]
                   /\ feature_index' = (feature_index - 1) + 1
              ELSE /\ feature_collections' = feature_collections
                   /\ feature_index' = feature_index + 1
    /\ UNCHANGED <<features, input, topology_feature_ids, topological_property_delegates,
                   referenced_feature_ids, collection_index, scan_index, results, pc,
                   main_vars, visit_vars>>

\* Lines 91-99: one iteration of the while loop.
RemoveStep ==
    /\ pc = "remove"
    /\ collection_index <= Len(feature_collections)
    /\ feature_index < Len(feature_collections[collection_index])
    /\ LET feature_collection == feature_collections[collection_index]
           feature_id == feature_collection[feature_index + 1]
       IN  /\ tested' = [tested EXCEPT ![collection_index] = Append(@, feature_id)]
           /\ IF /\ feature_id \notin topology_feature_ids
                 /\ feature_id \notin referenced_feature_ids
              THEN /\ feature_collections' =
                        [feature_collections EXCEPT
                            ![collection_index] = DeleteAt(feature_collection, feature_index)]
                   /\ feature_index' = (feature_index - 1) + 1
              ELSE /\ feature_collections' = feature_collections
                   /\ feature_index' = feature_index + 1
    /\ UNCHANGED <<features, input, topology_feature_ids, topological_property_delegates,
                   referenced_feature_ids, collection_index, scan_index, results, pc,
                   main_vars, visit_vars>>

\* Lines 89-91: the while loop ends, the for loop takes the next collection.
RemoveNextCollection ==
    /\ pc = "remove"
    /\ collection_index <= Len(feature_collections)
    /\ feature_index >= Len(feature_collections[collection_index])
    /\ collection_index' = collection_index + 1
    /\ feature_index' = 0
    /\ UNCHANGED <<features, input, feature_collections, topology_feature_ids,
                   topological_property_delegates, referenced_feature_ids,
                   scan_index, tested, results, pc,
                   main_vars, visit_vars>>

\* Lines 102-103: return the lists as feature collections.
Return ==
    /\ pc = "remove"
    /\ collection_index > Len(feature_collections)
    /\ results' = Append(results, [input |-> input, output |-> feature_collections])
    /\ pc' = "returned"
    /\ UNCHANGED <<features, input, feature_collections, topology_feature_ids,
                   topological_property_delegates, referenced_feature_ids,
                   collection_index, scan_index, feature_index, tested,
                   main_vars, visit_vars>>

\* The caller passes the returned collections to the function again.
Reapply ==
    /\ pc = "returned"
    /\ Len(results) < MaxRuns
    /\ input' = results[Len(results)].output
    /\ pc' = "call"
    /\ UNCHANGED <<features, feature_collections, topology_feature_ids,
                   topological_property_delegates, referenced_feature_ids,
                   collection_index, scan_index, feature_index, tested, results,
                   main_vars, visit_vars>>

\* ------------------------------------------------------------------- main()
InputFilenames == 1..NumFiles

\* Lines 219-223: the prefixed name of input file i is a file of its own.
OutputFilename(i) == IF output_filename_prefix THEN NumFiles + i ELSE i

NoFile == [exists |-> FALSE, features |-> <<>>]
File(feature_collection) == [exists |-> TRUE, features |-> feature_collection]

\* Lines 163-167: the pygplates version check, before main().
VersionCheck ==
    /\ pc = "start"
    /\ \E ok \in BOOLEAN :
         IF ok THEN /\ pc' = "read"
                    /\ UNCHANGED <<stderr, exit_code>>
         ELSE /\ stderr' = Append(stderr, "Error - imported pygplates version")
              /\ exit_code' = 1
              /\ pc' = "exited"
    /\ UNCHANGED <<features, input, filter_vars, results, disk, output_filename_prefix,
                   input_feature_collections, feature_collection_index, visit_vars>>

\* Lines 207-208: read the next input file; the read may raise.
ReadInput ==
    /\ pc = "read"
    /\ Len(input_feature_collections) < NumFiles
    /\ \E ok \in BOOLEAN :
         IF ok THEN /\ input_feature_collections' =
                         Append(input_feature_collections,
                                disk[Len(input_feature_collections) + 1].features)
                    /\ pc' = "read"
         ELSE /\ pc' = "raised"
              /\ UNCHANGED input_feature_collections
    /\ UNCHANGED <<features, input, filter_vars, results, disk, output_filename_prefix,
                   feature_collection_index, stderr, exit_code, visit_vars>>

\* Line 211: main() calls the function on the collections it read.
CallFilter ==
    /\ pc = "read"
    /\ Len(input_feature_collections) = NumFiles
    /\ input' = input_feature_collections
    /\ pc' = "call"
    /\ UNCHANGED <<features, filter_vars, results, main_vars, visit_vars>>

\* Lines 214-225: write the next output collection; the write may raise.
WriteOutput ==
    /\ pc = "returned"
    /\ feature_collection_index < Len(results[Len(results)].output)
    /\ \E ok \in BOOLEAN :
         IF ok THEN /\ disk' = [disk EXCEPT
                            ![OutputFilename(feature_collection_index + 1)] =
                                File(results[Len(results)].output[feature_collection_index + 1])]
                    /\ feature_collection_index' = feature_collection_index + 1
                    /\ pc' = "returned"
         ELSE /\ pc' = "raised"
              /\ UNCHANGED <<disk, feature_collection_index>>
    /\ UNCHANGED <<features, input, filter_vars, results, output_filename_prefix,
                   input_feature_collections, stderr, exit_code, visit_vars>>

\* Line 227: sys.exit(0); SystemExit is no Exception, the handler lets it pass.
Exit ==
    /\ pc = "returned"
    /\ feature_collection_index >= Len(results[Len(results)].output)
    /\ exit_code' = 0
    /\ pc' = "exited"
    /\ UNCHANGED <<features, input, filter_vars, results, disk, output_filename_prefix,
                   input_feature_collections, feature_collection_index, stderr, visit_vars>>

\* Mutant: the handler reports the error and exits as if nothing had failed.
HandleExceptionExitZero ==
    /\ pc = "raised"
    /\ stderr' = Append(stderr, "ERROR: message of the exception")
    /\ exit_code' = 0
    /\ pc' = "exited"
    /\ UNCHANGED <<features, input, filter_vars, results, disk, output_filename_prefix,
                   input_feature_collections, feature_collection_index, visit_vars>>

\* Lines 234-238: the handler around main().
HandleException ==
    /\ pc = "raised"
    /\ stderr' = Append(stderr, "ERROR: message of the exception")
    /\ exit_code' = 1
    /\ pc' = "exited"
    /\ UNCHANGED <<features, input, filter_vars, results, disk, output_filename_prefix,
                   input_feature_collections, feature_collection_index, visit_vars>>

\* ------------------------------------------------------ one visitor, reused
\* visit_property_value on one more value, with the list the visitor has.
VisitPropertyValue(value) ==
    /\ pc = "visitor"
    /\ pc' = "visited"
    /\ property_value' = value
    /\ delegates_before' = topological_property_delegates
    /\ topological_property_delegates' =
            visit_property_value(value, topological_property_delegates).delegates
    /\ UNCHANGED <<features, input, feature_collections, topology_feature_ids,
                   referenced_feature_ids, collection_index, scan_index, feature_index,
                   tested, results, main_vars>>

\* ------------------------------------------------------------------ inputs
SeqsUpTo(S, n) == UNION {[1..k -> S] : k \in 0..n}

Successor(t) == IF t + 1 \in FeatureIds THEN t + 1 ELSE 1

\* The property values of the features of the filter runs.
PropertyValues ==
    {GpmlTopologicalLine(<<>>)}
    \cup {GpmlTopologicalLine(<<t>>) : t \in FeatureIds}
    \cup {OtherValue(<<t>>) : t \in FeatureIds}
    \cup {GpmlPiecewiseAggregation("GpmlTopologicalNetwork",
            <<GpmlConstantValue(GpmlTopologicalNetwork(<<>>, <<>>)),
              GpmlConstantValue(GpmlTopologicalNetwork(<<t>>, <<Successor(t)>>))>>) :
            t \in FeatureIds}

\* At most two properties in all: none, one, two on one feature, or one on
\* each of two features (f = g in the last set gives one property again).
NoProperties == [f \in FeatureIds |-> <<>>]
FeatureProperties ==
    {NoProperties}
    \cup {[NoProperties EXCEPT ![f] = <<v>>] : f \in FeatureIds, v \in PropertyValues}
    \cup {[NoProperties EXCEPT ![f] = <<v, w>>] :
            f \in FeatureIds, v \in PropertyValues, w \in PropertyValues}
    \cup {[[NoProperties EXCEPT ![f] = <<v>>] EXCEPT ![g] = <<w>>] :
            f \in FeatureIds, g \in FeatureIds,
            v \in PropertyValues, w \in PropertyValues}

\* One or two collections holding at most MaxLen features in all.
FeatureCollectionLists ==
    {<<a>> : a \in SeqsUpTo(FeatureIds, MaxLen)}
    \cup {<<a, b>> : a \in SeqsUpTo(FeatureIds, MaxLen),
                     b \in SeqsUpTo(FeatureIds, MaxLen)}

\* The property values handed to the visitor runs.
VisitorIds == 1..2
DelegateLists == SeqsUpTo(VisitorIds, MaxSections)
Constructs ==
    {GpmlTopologicalLine(s) : s \in DelegateLists}
    \cup {GpmlTopologicalPolygon(s) : s \in DelegateLists}
    \cup {GpmlTopologicalNetwork(s, i) : s \in DelegateLists, i \in DelegateLists}
    \cup {OtherValue(s) : s \in DelegateLists}
WindowValues ==
    {GpmlTopologicalLine(s) : s \in DelegateLists}
    \cup {GpmlTopologicalPolygon(s) : s \in DelegateLists}
    \cup {GpmlTopologicalNetwork(s, s) : s \in DelegateLists}
    \cup {OtherValue(s) : s \in DelegateLists}
    \cup {GpmlConstantValue(GpmlTopologicalLine(s)) : s \in DelegateLists}
ValueTypes == Topological \cup {"GpmlPlateId"}
VisitedValues ==
    Constructs
    \cup {GpmlConstantValue(c) : c \in Constructs}
    \cup {GpmlPiecewiseAggregation(t, w) :
            t \in ValueTypes, w \in SeqsUpTo(WindowValues, MaxWindows)}

\* --------------------------------------------------------- specifications
InitFilter ==
    /\ feature_collections = <<>>
    /\ topology_feature_ids = {}
    /\ topological_property_delegates = <<>>
    /\ referenced_feature_ids = {}
    /\ collection_index = 1
    /\ scan_index = 1
    /\ feature_index = 0
    /\ tested = <<>>
    /\ results = <<>>

InitMain ==
    /\ disk = <<>>
    /\ output_filename_prefix = FALSE
    /\ input_feature_collections = <<>>
    /\ feature_collection_index = 0
    /\ stderr = <<>>
    /\ exit_code = -1

InitVisit ==
    /\ property_value = OtherValue(<<>>)
    /\ delegates_before = <<>>

\* A caller of remove_features_not_referenced_by_topologies.
Init ==
    /\ features \in FeatureProperties
    /\ input \in {c \in FeatureCollectionLists :
                    Len(c[1]) + (IF Len(c) > 1 THEN Len(c[2]) ELSE 0) <= MaxLen}
    /\ InitFilter /\ InitMain /\ InitVisit
    /\ pc = "call"

FilterNext ==
    \/ Materialize \/ ScanFeature \/ ScanNextCollection \/ ComputeReferenced
    \/ RemoveStep \/ RemoveNextCollection \/ Return

Next == FilterNext \/ Reapply

Spec == Init /\ [][Next]_vars

\* The command line.
MainFeatureProperties ==
    {NoProperties}
    \cup {[NoProperties EXCEPT ![f] = <<GpmlTopologicalLine(<<t>>)>>] :
            f \in FeatureIds, t \in FeatureIds}

InitCLI ==
    /\ features \in MainFeatureProperties
    /\ input = <<>>
    /\ InitFilter
    /\ \E files \in [InputFilenames -> SeqsUpTo(FeatureIds, 2)] :
         disk = [n \in 1..(2 * NumFiles) |->
                    IF n \in InputFilenames THEN File(files[n]) ELSE NoFile]
    /\ output_filename_prefix \in BOOLEAN
    /\ input_feature_collections = <<>>
    /\ feature_collection_index = 0
    /\ stderr = <<>>
    /\ exit_code = -1
    /\ InitVisit
    /\ pc = "start"

NextCLI ==
    \/ VersionCheck \/ ReadInput \/ CallFilter \/ FilterNext
    \/ WriteOutput \/ Exit \/ HandleException

SpecCLI == InitCLI /\ [][NextCLI]_vars

\* A visitor that holds the delegates of earlier visits is handed a value.
InitVisitor ==
    /\ features = NoProperties
    /\ input = <<>>
    /\ feature_collections = <<>>
    /\ topology_feature_ids = {}
    /\ topological_property_delegates \in SeqsUpTo(VisitorIds, MaxDelegates)
    /\ referenced_feature_ids = {}
    /\ collection_index = 1
    /\ scan_index = 1
    /\ feature_index = 0
    /\ tested = <<>>
    /\ results = <<>>
    /\ InitMain /\ InitVisit
    /\ pc = "visitor"

NextVisitor == pc = "visitor" /\ \E value \in VisitedValues : VisitPropertyValue(value)

SpecVisitor == InitVisitor /\ [][NextVisitor]_vars

\* ============================================================== properties
\* Vocabulary of the claims, defined on the input alone.

\* The value is, or holds in a constant wrapper or in a time window of a
\* Line/Polygon/Network-typed piecewise aggregation, a topological construct.
RECURSIVE HoldsTopology(_)
HoldsTopology(value) ==
    \/ value.kind \in Topological
    \/ /\ value.kind = "GpmlConstantValue"
       /\ HoldsTopology(value.values[1])
    \/ /\ value.kind = "GpmlPiecewiseAggregation"
       /\ value.value_type \in Topological
       /\ \E i \in DOMAIN value.values : HoldsTopology(value.values[i])

\* The feature ids named by the delegates (sections, interiors) of the
\* constructs the value holds in that sense.
RECURSIVE DelegateTargets(_)
DelegateTargets(value) ==
    IF value.kind \in Topological THEN Range(value.sections) \cup Range(value.interiors)
    ELSE IF value.kind = "GpmlConstantValue" THEN DelegateTargets(value.values[1])
    ELSE IF value.kind = "GpmlPiecewiseAggregation" /\ value.value_type \in Topological
         THEN UNION {DelegateTargets(value.values[i]) : i \in DOMAIN value.values}
    ELSE {}

\* The feature ids named by the delegates of any construct anywhere in the value.
RECURSIVE AnyConstructTargets(_)
AnyConstructTargets(value) ==
    IF value.kind \in Topological THEN Range(value.sections) \cup Range(value.interiors)
    ELSE UNION {AnyConstructTargets(value.values[i]) : i \in DOMAIN value.values}

\* The feature ids the value names outside any topological construct.
RECURSIVE OtherTargets(_)
OtherTargets(value) ==
    IF value.kind = "Other" THEN Range(value.sections)
    ELSE UNION {OtherTargets(value.values[i]) : i \in DOMAIN value.values}

IsTopologicalFeature(f) ==
    \E k \in DOMAIN features[f] : HoldsTopology(features[f][k])
IsRegularFeature(f) == ~IsTopologicalFeature(f)

FeatureDelegateTargets(f) ==
    UNION {DelegateTargets(features[f][k]) : k \in DOMAIN features[f]}

InputFeatures == UNION {Range(input[i]) : i \in DOMAIN input}

\* Named by a delegate of some construct of some feature of the input.
FeatureConstructTargets(f) ==
    UNION {AnyConstructTargets(features[f][k]) : k \in DOMAIN features[f]}
FeatureOtherTargets(f) ==
    UNION {OtherTargets(features[f][k]) : k \in DOMAIN features[f]}

NamedByConstruct == UNION {FeatureConstructTargets(f) : f \in InputFeatures}

\* Named by a reference held, outside any construct, in a regular feature of the input.
NamedByRegular ==
    UNION {FeatureOtherTargets(f) : f \in {g \in InputFeatures : IsRegularFeature(g)}}

Returned == pc = "returned"
Output == results[Len(results)].output
OutputFeatures == UNION {Range(Output[i]) : i \in DOMAIN Output}

Count(seq, x) == Cardinality({i \in DOMAIN seq : seq[i] = x})

RECURSIVE IsSubsequence(_, _)
IsSubsequence(s, t) ==
    IF s = <<>> THEN TRUE
    ELSE IF t = <<>> THEN FALSE
    ELSE IF Head(s) = Head(t) THEN IsSubsequence(Tail(s), Tail(t))
    ELSE IsSubsequence(s, Tail(t))

\* Copy, in order, the features of seq whose id is in keep.
CopyKept(seq, keep) ==
    LET Kept(f) == f \in keep IN SelectSeq(seq, Kept)

\* C1 (as claimed): every topological feature of the input, whatever sections
\* and interiors its construct has, is present in the output, in each
\* collection it was in.
C1_TopologyPreservation ==
    Returned =>
        \A i \in DOMAIN input : \A f \in Range(input[i]) :
            IsTopologicalFeature(f) => f \in Range(Output[i])

\* C2 (as claimed): a regular feature named by a delegate of any topological
\* property of a retained topological feature survives, in every collection
\* it was in.
C2_ReferencedRegularRetention ==
    Returned =>
        \A t \in InputFeatures :
            (IsTopologicalFeature(t) /\ t \in OutputFeatures) =>
                \A r \in FeatureDelegateTargets(t) :
                    IsRegularFeature(r) =>
                        \A i \in DOMAIN input :
                            r \in Range(input[i]) => r \in Range(Output[i])

\* C3: a regular feature that no delegate of any construct of the input names
\* is absent from the output, and an input of regular features only yields
\* empty collections.
C3_UnreferencedRegularRemoval ==
    Returned =>
        /\ \A f \in InputFeatures :
                (IsRegularFeature(f) /\ f \notin NamedByConstruct) => f \notin OutputFeatures
        /\ (\A f \in InputFeatures : IsRegularFeature(f)) =>
                \A i \in DOMAIN Output : Output[i] = <<>>

C3_Witness ==
    /\ Returned
    /\ \E f \in InputFeatures, t \in OutputFeatures, r \in OutputFeatures :
          /\ IsRegularFeature(f) /\ f \notin NamedByConstruct /\ f \notin OutputFeatures
          /\ IsTopologicalFeature(t)
          /\ IsRegularFeature(r) /\ r \in FeatureDelegateTargets(t)

\* C4 (as claimed): a feature named only by a reference held in a regular
\* feature, and by no delegate of a construct, is removed.
C4_SingleHopAnyFeature ==
    Returned =>
        \A f \in InputFeatures :
            (f \in NamedByRegular /\ f \notin NamedByConstruct) => f \notin OutputFeatures

\* C4 (amended): a regular feature named only by a reference held in a
\* regular feature, and by no delegate of a construct, is removed, also when
\* the feature holding the reference is itself kept.
C4_SingleHopRegular ==
    Returned =>
        \A f \in InputFeatures :
            (IsRegularFeature(f) /\ f \in NamedByRegular /\ f \notin NamedByConstruct)
                => f \notin OutputFeatures

C4_Witness ==
    /\ Returned
    /\ \E f \in InputFeatures, r \in OutputFeatures, t \in OutputFeatures :
          /\ IsTopologicalFeature(t) /\ r \in FeatureDelegateTargets(t)
          /\ IsRegularFeature(r) /\ f \in FeatureOtherTargets(r)
          /\ IsRegularFeature(f) /\ f \notin NamedByConstruct /\ f # r
          /\ f \notin OutputFeatures

\* C5: as many output collections as input collections, each a subsequence of
\* its input collection; a feature that is topological and referenced keeps
\* each of its occurrences, once; no more features come out than went in.
TotalLen(colls) ==
    LET RECURSIVE Sum(_)
        Sum(i) == IF i > Len(colls) THEN 0 ELSE Len(colls[i]) + Sum(i + 1)
    IN  Sum(1)

C5_OrderAndCount ==
    Returned =>
        /\ Len(Output) = Len(input)
        /\ \A i \in DOMAIN input :
              /\ IsSubsequence(Output[i], input[i])
              /\ \A f \in topology_feature_ids \cap referenced_feature_ids :
                    Count(Output[i], f) = Count(input[i], f)
        /\ TotalLen(Output) <= TotalLen(input)

C5_Witness ==
    /\ Returned
    /\ Len(input) = 2
    /\ \E i \in DOMAIN input :
          /\ Len(Output[i]) = 2 /\ Len(input[i]) = 3
          /\ Output[i][1] # Output[i][2]
          /\ Output[i][1] \in topology_feature_ids \cap referenced_feature_ids

\* C6: a call on the list an earlier call returned returns that list again.
C6_Idempotence ==
    \A k \in 2..Len(results) :
        /\ results[k].input = results[k - 1].output
        /\ results[k].output = results[k - 1].output

C6_Witness ==
    /\ Len(results) = 2
    /\ results[1].output # results[1].input
    /\ \E t \in OutputFeatures, r \in OutputFeatures :
          IsTopologicalFeature(t) /\ IsRegularFeature(r)

\* The same filter without the break: every property of every feature is visited.
FullScanTopologyIds ==
    {f \in InputFeatures :
        \E k \in DOMAIN features[f] : visit_property_value(features[f][k], <<>>).visited}
FullScanFeatureIds(f) ==
    UNION {Range(accept_visitor(features[f][k], <<>>)) : k \in DOMAIN features[f]}
FullScanReferencedIds == UNION {FullScanFeatureIds(f) : f \in InputFeatures}
FullScanOutput ==
    [i \in DOMAIN input |->
        CopyKept(input[i], FullScanTopologyIds \cup FullScanReferencedIds)]

\* C8 (as claimed): the filter returns what the filter that visits every
\* property of every feature returns (the same surviving features).
C8_BreakIsOnlyAShortCut ==
    Returned => Output = FullScanOutput

\* C9: the while loop reads each feature of the original collection once, in
\* order (the features read and the features still ahead of the index always
\* add up to the original collection, so it ends after as many iterations as
\* the collection had features), and leaves the in-order copy of the features
\* whose id is in topology_feature_ids or referenced_feature_ids.
C9_InPlaceRemoval ==
    pc \in {"remove", "returned"} =>
        \A i \in DOMAIN input :
            LET keep == topology_feature_ids \cup referenced_feature_ids
                read == Len(tested[i])
            IN  /\ i < collection_index =>
                    /\ tested[i] = input[i]
                    /\ feature_collections[i] = CopyKept(input[i], keep)
                /\ i = collection_index =>
                    /\ feature_index \in 0..Len(feature_collections[i])
                    /\ read + (Len(feature_collections[i]) - feature_index) = Len(input[i])
                    /\ tested[i] = SubSeq(input[i], 1, read)
                    /\ SubSeq(feature_collections[i], 1, feature_index)
                            = CopyKept(tested[i], keep)
                    /\ SubSeq(feature_collections[i], feature_index + 1,
                              Len(feature_collections[i]))
                            = SubSeq(input[i], read + 1, Len(input[i]))
                /\ i > collection_index =>
                    /\ tested[i] = <<>>
                    /\ feature_collections[i] = input[i]

C9_Witness ==
    /\ Returned
    /\ \E i \in DOMAIN input :
          /\ Len(input[i]) = 3
          /\ tested[i] = input[i]
          /\ input[i][1] \notin OutputFeatures
          /\ input[i][2] \notin OutputFeatures
          /\ Output[i] = <<input[i][3]>>

\* C7: main() reads every input file before the function runs and before it
\* writes any file; a read or write that raises is reported once as
\* 'ERROR: <message>' with exit code 1, the outputs written before it stay,
\* no later output is written; a run in which nothing raises exits with 0.
ErrorLine == "ERROR: message of the exception"

Unwritten(i) ==
    IF output_filename_prefix THEN NoFile ELSE File(input_feature_collections[i])

C7_State ==
    /\ pc \in {"call", "scan", "remove", "returned"} =>
            Len(input_feature_collections) = NumFiles
    /\ feature_collection_index > 0 => pc \in {"returned", "raised", "exited"}
    /\ pc = "exited" =>
        /\ exit_code = 0 =>
            /\ stderr = <<>>
            /\ \A i \in InputFilenames : disk[OutputFilename(i)] = File(Output[i])
        /\ (exit_code # 0 /\ results # <<>>) =>
            /\ exit_code = 1
            /\ stderr = <<ErrorLine>>
            /\ \A i \in InputFilenames :
                 disk[OutputFilename(i)] =
                    IF i <= feature_collection_index THEN File(Output[i]) ELSE Unwritten(i)

C7_Step ==
    /\ disk' # disk =>
            /\ pc = "returned"
            /\ Len(input_feature_collections) = NumFiles
            /\ \E i \in InputFilenames :
                  disk' = [disk EXCEPT ![OutputFilename(i)] = File(Output[i])]
    /\ pc = "raised" => (pc' = "exited" /\ exit_code' = 1 /\ stderr' = <<ErrorLine>>)
    /\ (pc = "returned" /\ pc' = "exited") => exit_code' = 0
    /\ pc = "exited" => UNCHANGED vars

C7_CommandLineFailure == [](C7_State) /\ [][C7_Step]_vars

C7_Witness ==
    /\ pc = "exited"
    /\ exit_code = 1
    /\ results # <<>>
    /\ feature_collection_index = 1
    /\ ~output_filename_prefix
    /\ Output[1] # input_feature_collections[1]
    /\ disk[1] = File(Output[1])
    /\ Output[2] # input_feature_collections[2]
    /\ disk[2] = File(input_feature_collections[2])

\* The delegates a visit of the value appends, as a function of the value.
RECURSIVE DelegateSequence(_)
RECURSIVE WindowDelegates(_)
WindowDelegates(windows) ==
    IF windows = <<>> THEN <<>>
    ELSE DelegateSequence(Head(windows)) \o WindowDelegates(Tail(windows))
DelegateSequence(value) ==
    IF value.kind \in {"GpmlTopologicalLine", "GpmlTopologicalPolygon"} THEN value.sections
    ELSE IF value.kind = "GpmlTopologicalNetwork" THEN value.sections \o value.interiors
    ELSE IF value.kind = "GpmlConstantValue" THEN DelegateSequence(value.values[1])
    ELSE IF value.kind = "GpmlPiecewiseAggregation" /\ value.value_type \in Topological
         THEN WindowDelegates(value.values)
    ELSE <<>>

\* C10: the visit of a piecewise aggregation appends the delegates of the
\* values of all its time windows, in order, when the declared value type is
\* Line, Polygon or Network, and nothing for any other declared type; the
\* delegates the visitor held before stay in front, as they were.
C10_PiecewiseDispatch ==
    (pc = "visited" /\ property_value.kind = "GpmlPiecewiseAggregation") =>
        topological_property_delegates =
            delegates_before \o
                (IF property_value.value_type \in Topological
                 THEN WindowDelegates(property_value.values)
                 ELSE <<>>)

C10_Witness ==
    /\ pc = "visited"
    /\ property_value.kind = "GpmlPiecewiseAggregation"
    /\ property_value.value_type \in Topological
    /\ Len(property_value.values) = 2
    /\ property_value.values[1].kind = "GpmlTopologicalNetwork"
    /\ property_value.values[2].kind = "GpmlConstantValue"
    /\ delegates_before # <<>>
    /\ Len(topological_property_delegates) = Len(delegates_before) + 3

====
